---- MODULE Spec2Model ----
(***************************************************************************)
(* Model of src/main.py: class AutonomousAgent.  The agent keeps a        *)
(* LoopState (iteration, completed_tasks, pending_tasks), checkpoints it   *)
(* to agent_state.json and drives an execute / evaluate / replenish loop   *)
(* bounded by max_iterations.  Texts exchanged with the backend are        *)
(* sequences of characters (evaluator replies) or of lexical tokens        *)
(* (planner replies, the checkpoint file) so that the parsing code is      *)
(* modelled by what it computes.                                           *)
(***************************************************************************)
EXTENDS Integers, Sequences, FiniteSets, TLC

\* ------------------------------------------------------------------ bounds
\* largest max_iterations handed to the constructor
MaxN == 3
\* largest number of fragments concatenated into an evaluator reply
MaxFrags == 4

\* ------------------------------------------------- texts as character rows
Digits == <<"0", "1", "2", "3", "4", "5", "6", "7", "8", "9">>

DigitSet == {Digits[i] : i \in 1..10}

DigitVal(c) == (CHOOSE i \in 1..10 : Digits[i] = c) - 1

Lower == <<"a", "c", "d", "e", "h", "i", "v">>

UpperOf == <<"A", "C", "D", "E", "H", "I", "V">>

\* str.upper() on one character (the lowercase letters the replies use)
UpperChar(c) ==
  IF \E i \in 1..Len(Lower) : Lower[i] = c
  THEN UpperOf[CHOOSE i \in 1..Len(Lower) : Lower[i] = c]
  ELSE c

\* str.upper()
Upper(s) == [i \in 1..Len(s) |-> UpperChar(s[i])]

\* `sub in s`
Contains(s, sub) ==
  \E i \in 0..(Len(s) - Len(sub)) : SubSeq(s, i + 1, i + Len(sub)) = sub

\* the characters str.split() treats as separators
IsSpace(c) == c \in {" ", "\n", "\t"}

RECURSIVE SplitFrom(_, _, _)
\* str.split(): the maximal runs of non-whitespace characters, in order
SplitFrom(s, i, cur) ==
  IF i > Len(s)
  THEN IF cur = <<>> THEN <<>> ELSE <<cur>>
  ELSE IF IsSpace(s[i])
       THEN (IF cur = <<>> THEN <<>> ELSE <<cur>>) \o SplitFrom(s, i + 1, <<>>)
       ELSE SplitFrom(s, i + 1, Append(cur, s[i]))

Split(s) == SplitFrom(s, 1, <<>>)

RECURSIVE Remove(_, _)
\* word.replace(c, "")
Remove(s, c) ==
  IF s = <<>> THEN <<>>
  ELSE IF Head(s) = c THEN Remove(Tail(s), c)
       ELSE <<Head(s)>> \o Remove(Tail(s), c)

RECURSIVE DigitsValue(_, _)
DigitsValue(s, acc) ==
  IF s = <<>> THEN acc
  ELSE IF Head(s) = "_" THEN DigitsValue(Tail(s), acc)
       ELSE DigitsValue(Tail(s), 10 * acc + DigitVal(Head(s)))

\* the literal int() accepts after the sign: digits, single underscores between
IsIntBody(s) ==
  /\ s # <<>>
  /\ s[1] \in DigitSet
  /\ s[Len(s)] \in DigitSet
  /\ \A i \in 1..Len(s) : s[i] \in DigitSet \cup {"_"}
  /\ \A i \in 1..(Len(s) - 1) : ~(s[i] = "_" /\ s[i + 1] = "_")

\* int(word): ok is FALSE where Python raises ValueError
ParseInt(s) ==
  LET signed == s # <<>> /\ s[1] \in {"+", "-"}
      body == IF signed THEN Tail(s) ELSE s
  IN IF IsIntBody(body)
     THEN [ok |-> TRUE,
           val |-> IF signed /\ s[1] = "-"
                   THEN 0 - DigitsValue(body, 0) ELSE DigitsValue(body, 0)]
     ELSE [ok |-> FALSE, val |-> 0]

\* ------------------------------------------------------ the Completion Port
\* call_llm returns the reply text, or None after any exception
None == [ok |-> FALSE, text |-> <<>>]

Reply(t) == [ok |-> TRUE, text |-> t]

\* Python truthiness of a call_llm result: None and "" are both falsy
Truthy(r) == r.ok /\ r.text # <<>>

\* ---------------------------------------------------------- the evaluator
RECURSIVE FirstPercent(_)
\* the for loop of evaluate_progress: the first word holding "%" that int()
\* accepts once the "%" are removed; 0 when there is none
FirstPercent(words) ==
  IF words = <<>> THEN 0
  ELSE LET w == Head(words)
           p == ParseInt(Remove(w, "%"))
       IN IF Contains(w, <<"%">>) /\ p.ok THEN p.val
          ELSE FirstPercent(Tail(words))

s100pct == <<"1", "0", "0", "%">>

sACHIEVED == <<"A", "C", "H", "I", "E", "V", "E", "D">>

\* evaluate_progress looking for "ACHIEVED" in the reply as it was received
evaluate_progress_cased(response) ==
  IF Truthy(response)
  THEN IF Contains(response.text, s100pct)
          \/ Contains(response.text, sACHIEVED)
       THEN [progress |-> 100, achieved |-> TRUE, evaluation |-> response]
       ELSE [progress |-> FirstPercent(Split(response.text)),
             achieved |-> FALSE, evaluation |-> response]
  ELSE [progress |-> 0, achieved |-> FALSE, evaluation |-> response]

\* evaluate_progress, from the reply of call_llm on
evaluate_progress(response) ==
  IF Truthy(response)
  THEN IF Contains(response.text, s100pct)
          \/ Contains(Upper(response.text), sACHIEVED)
       THEN [progress |-> 100, achieved |-> TRUE, evaluation |-> response]
       ELSE [progress |-> FirstPercent(Split(response.text)),
             achieved |-> FALSE, evaluation |-> response]
  ELSE [progress |-> 0, achieved |-> FALSE, evaluation |-> response]

\* ------------------------------------------------------------ the planner
\* A planner reply is a row of lexical tokens: the punctuation the parsing
\* code looks at ("[", "]", ",", the double quote, "'", "-", " ", "\n") and
\* words, which hold none of these characters.  The replies modelled hold
\* no nested array and no bare JSON number or literal.
Quote == "\""

RECURSIVE Find(_, _, _)
\* str.find as a 1-based index, 0 for -1
Find(s, tok, i) ==
  IF i > Len(s) THEN 0
  ELSE IF s[i] = tok THEN i ELSE Find(s, tok, i + 1)

RECURSIVE RFind(_, _, _)
\* str.rfind as a 1-based index, 0 for -1
RFind(s, tok, i) ==
  IF i < 1 THEN 0
  ELSE IF s[i] = tok THEN i ELSE RFind(s, tok, i - 1)

RECURSIVE Join(_)
\* the text of a row of tokens
Join(toks) == IF toks = <<>> THEN "" ELSE Head(toks) \o Join(Tail(toks))

RECURSIVE JsonArray(_, _, _, _, _)
\* json.loads on a row of tokens that should spell an array of strings;
\* ok is FALSE where json.loads raises.  st is the position in the grammar:
\* "start", "first" (after "["), "value" (after ","), "instr", "after"
\* (after a string), "end" (after "]").
JsonArray(toks, i, st, cur, acc) ==
  IF i > Len(toks)
  THEN [ok |-> st = "end", tasks |-> acc]
  ELSE LET t == toks[i]
           ws == t \in {" ", "\n"}
           bad == [ok |-> FALSE, tasks |-> <<>>]
       IN CASE st = "instr" ->
                 IF t = Quote
                 THEN JsonArray(toks, i + 1, "after", "", Append(acc, cur))
                 ELSE IF t = "\n" THEN bad
                 ELSE JsonArray(toks, i + 1, "instr", cur \o t, acc)
            [] st # "instr" /\ ws -> JsonArray(toks, i + 1, st, cur, acc)
            [] st = "start" /\ ~ws ->
                 IF t = "[" THEN JsonArray(toks, i + 1, "first", "", acc)
                 ELSE bad
            [] st = "first" /\ ~ws ->
                 IF t = "]" THEN JsonArray(toks, i + 1, "end", "", acc)
                 ELSE IF t = Quote
                 THEN JsonArray(toks, i + 1, "instr", "", acc)
                 ELSE bad
            [] st = "value" /\ ~ws ->
                 IF t = Quote THEN JsonArray(toks, i + 1, "instr", "", acc)
                 ELSE bad
            [] st = "after" /\ ~ws ->
                 IF t = "," THEN JsonArray(toks, i + 1, "value", "", acc)
                 ELSE IF t = "]" THEN JsonArray(toks, i + 1, "end", "", acc)
                 ELSE bad
            [] st = "end" /\ ~ws -> bad

\* the try block shared by generate_tasks and create_new_tasks: the array
\* between the first "[" and the last "]"; ok is FALSE when the block falls
\* through (no bracket found, or json.loads raised)
ExtractArray(text) ==
  LET start == Find(text, "[", 1)
      end == RFind(text, "]", Len(text))
  IN IF start # 0 /\ end # 0
     THEN JsonArray(SubSeq(text, start, end), 1, "start", "", <<>>)
     ELSE [ok |-> FALSE, tasks |-> <<>>]

RECURSIVE SplitLines(_, _)
\* response.split("\n")
SplitLines(text, cur) ==
  IF text = <<>> THEN <<cur>>
  ELSE IF Head(text) = "\n" THEN <<cur>> \o SplitLines(Tail(text), <<>>)
       ELSE SplitLines(Tail(text), Append(cur, Head(text)))

RECURSIVE LStrip(_, _)
LStrip(line, cs) ==
  IF line # <<>> /\ Head(line) \in cs THEN LStrip(Tail(line), cs) ELSE line

RECURSIVE RStrip(_, _)
RStrip(line, cs) ==
  IF line # <<>> /\ line[Len(line)] \in cs
  THEN RStrip(SubSeq(line, 1, Len(line) - 1), cs) ELSE line

\* str.strip(chars); str.strip() is Strip(line, {" "})
Strip(line, cs) == RStrip(LStrip(line, cs), cs)

\* line.strip().strip('"').strip("'").strip("-").strip()
CleanLine(line) ==
  Join(Strip(Strip(Strip(Strip(Strip(line, {" "}), {Quote}), {"'"}), {"-"}),
             {" "}))

RECURSIVE SelectSeq2(_, _)
\* the lines kept by the fallback of generate_tasks, cleaned, in order
SelectSeq2(lines, minlen) ==
  IF lines = <<>> THEN <<>>
  ELSE LET l == Head(lines)
           rest == SelectSeq2(Tail(lines), minlen)
       IN IF Strip(l, {" "}) # <<>> /\ Len(CleanLine(l)) > minlen
          THEN <<CleanLine(l)>> \o rest ELSE rest

FirstN(s, n) == SubSeq(s, 1, IF Len(s) < n THEN Len(s) ELSE n)

DefaultPlan == <<"Research the goal", "Create a plan", "Execute plan">>

\* generate_tasks answering a failed call the way create_new_tasks does
generate_tasks_empty(response) ==
  IF ~Truthy(response) THEN <<>>
  ELSE LET arr == ExtractArray(response.text)
       IN IF arr.ok THEN arr.tasks
          ELSE FirstN(SelectSeq2(SplitLines(response.text, <<>>), 10), 5)

\* generate_tasks, from the reply of call_llm on
generate_tasks(response) ==
  IF ~Truthy(response) THEN DefaultPlan
  ELSE LET arr == ExtractArray(response.text)
       IN IF arr.ok THEN arr.tasks
          ELSE FirstN(SelectSeq2(SplitLines(response.text, <<>>), 10), 5)

\* create_new_tasks without its "if not self.completed_tasks" return
create_new_tasks_unguarded(completed, response) ==
  IF ~Truthy(response) THEN <<>>
  ELSE LET arr == ExtractArray(response.text)
       IN IF arr.ok THEN arr.tasks ELSE <<>>

\* create_new_tasks, from the reply of call_llm on (the call is made only
\* when completed_tasks is not empty)
create_new_tasks(completed, response) ==
  IF completed = <<>> THEN <<>>
  ELSE IF ~Truthy(response) THEN <<>>
  ELSE LET arr == ExtractArray(response.text)
       IN IF arr.ok THEN arr.tasks ELSE <<>>

\* execute_task: response or "Task execution unclear"
execute_task(response) ==
  IF response.ok /\ response.text # "" THEN response.text
  ELSE "Task execution unclear"

\* -------------------------------------------------------- the State Store
\* The text of agent_state.json is a row of JSON tokens: punctuation, object
\* keys, string values and integer values.
P(c) == [t |-> "punct", s |-> c, n |-> 0]

K(k) == [t |-> "key", s |-> k, n |-> 0]

S(v) == [t |-> "str", s |-> v, n |-> 0]

I(v) == [t |-> "int", s |-> "", n |-> v]

Goal == "the goal"

\* a CompletedTask record as run() appends it
Record(task, result, it) == [task |-> task, result |-> result, iteration |-> it]

RECURSIVE DumpRecords(_)
DumpRecords(recs) ==
  IF recs = <<>> THEN <<>>
  ELSE <<P("{"), K("task"), S(Head(recs).task),
         K("result"), S(Head(recs).result),
         K("iteration"), I(Head(recs).iteration), P("}")>>
       \o DumpRecords(Tail(recs))

DumpStrings(strs) == [i \in 1..Len(strs) |-> S(strs[i])]

\* json.dumps(state) in save_state; datetime.now() is the one value "now"
Dumps(it, completed, pending) ==
  <<P("{"), K("goal"), S(Goal), K("iteration"), I(it),
    K("timestamp"), S("now"), K("completed_tasks"), P("[")>>
  \o DumpRecords(completed)
  \o <<P("]"), K("pending_tasks"), P("[")>>
  \o DumpStrings(pending)
  \o <<P("]"), P("}")>>

Opens == {P("{"), P("[")}

Closes == {P("}"), P("]")}

RECURSIVE Balanced(_, _, _)
\* the brackets of toks nest properly and the first one closes at the end
Balanced(toks, i, stack) ==
  IF i > Len(toks) THEN stack = <<>> /\ toks # <<>>
  ELSE IF toks[i] \in Opens
       THEN (i = 1 \/ stack # <<>>)
            /\ Balanced(toks, i + 1, <<toks[i].s>> \o stack)
       ELSE IF toks[i] \in Closes
       THEN /\ stack # <<>>
            /\ Head(stack) = (IF toks[i].s = "}" THEN "{" ELSE "[")
            /\ Balanced(toks, i + 1, Tail(stack))
       ELSE stack # <<>> /\ Balanced(toks, i + 1, stack)

RECURSIVE MatchClose(_, _, _)
\* the index of the bracket closing the one opened before position i
MatchClose(toks, i, depth) ==
  IF toks[i] \in Opens THEN MatchClose(toks, i + 1, depth + 1)
  ELSE IF toks[i] \in Closes
       THEN IF depth = 1 THEN i ELSE MatchClose(toks, i + 1, depth - 1)
       ELSE MatchClose(toks, i + 1, depth)

\* the last token of the value that starts at position i
ValueEnd(toks, i) ==
  IF toks[i] \in Opens THEN MatchClose(toks, i + 1, 1) ELSE i

RECURSIVE ObjGet(_, _, _, _)
\* dict lookup in the object whose members are toks[i..hi]: the bounds of
\* the value stored under key, found FALSE when the key is absent
ObjGet(toks, i, hi, key) ==
  IF i > hi THEN [found |-> FALSE, lo |-> 0, hi |-> 0]
  ELSE LET ve == ValueEnd(toks, i + 1)
       IN IF toks[i].s = key THEN [found |-> TRUE, lo |-> i + 1, hi |-> ve]
          ELSE ObjGet(toks, ve + 1, hi, key)

RECURSIVE LoadRecords(_, _, _)
\* the list of {task, result, iteration} objects in toks[i..hi]
LoadRecords(toks, i, hi) ==
  IF i > hi THEN <<>>
  ELSE LET ve == ValueEnd(toks, i)
           task == ObjGet(toks, i + 1, ve - 1, "task")
           result == ObjGet(toks, i + 1, ve - 1, "result")
           it == ObjGet(toks, i + 1, ve - 1, "iteration")
       IN <<Record(toks[task.lo].s, toks[result.lo].s, toks[it.lo].n)>>
          \o LoadRecords(toks, ve + 1, hi)

\* the strings of toks[lo..hi], last one first
LoadStringsReversed(toks, lo, hi) ==
  [i \in 1..(hi - lo + 1) |-> toks[hi - i + 1].s]

\* the list of strings in toks[lo..hi]
LoadStrings(toks, lo, hi) == [i \in 1..(hi - lo + 1) |-> toks[lo + i - 1].s]

\* json.loads(text) followed by the three state.get calls of load_state;
\* ok is FALSE where json.loads raises JSONDecodeError
Loads(toks) ==
  IF ~Balanced(toks, 1, <<>>)
  THEN [ok |-> FALSE, iteration |-> 0, completed_tasks |-> <<>>,
        pending_tasks |-> <<>>]
  ELSE LET it == ObjGet(toks, 2, Len(toks) - 1, "iteration")
           ct == ObjGet(toks, 2, Len(toks) - 1, "completed_tasks")
           pt == ObjGet(toks, 2, Len(toks) - 1, "pending_tasks")
       IN [ok |-> TRUE,
           iteration |-> IF it.found THEN toks[it.lo].n ELSE 0,
           completed_tasks |->
             IF ct.found THEN LoadRecords(toks, ct.lo + 1, ct.hi - 1)
             ELSE <<>>,
           pending_tasks |->
             IF pt.found THEN LoadStrings(toks, pt.lo + 1, pt.hi - 1)
             ELSE <<>>]

\* ------------------------------------------------- what the backend can say
\* replies to the execution prompt: no reply, an empty reply, a result
ExecReplies == {[ok |-> FALSE, text |-> ""], [ok |-> TRUE, text |-> ""],
                [ok |-> TRUE, text |-> "result text"]}

\* ["Draft an outline", "Write the report"]
pTwoTasks == <<"[", Quote, "Draft an outline", Quote, ",", " ",
               Quote, "Write the report", Quote, "]">>

\* []
pNoTasks == <<"[", "]">>

\* two lines of prose, the second too short to be kept
pProse == <<"-", " ", "Collect the sources", "\n", "ok">>

\* a closing bracket before the opening one
pCrossed == <<"]", " ", "[">>

PlanReplies == {None, Reply(<<>>), Reply(pTwoTasks), Reply(pNoTasks),
                Reply(pProse), Reply(pCrossed)}

\* Next ["Review the draft", "Publish it"]
fTwoTasks == <<"Next", " ", "[", Quote, "Review the draft", Quote, ",", " ",
               Quote, "Publish it", Quote, "]">>

\* an array that is never closed
fUnclosed == <<"[", Quote, "Review the draft", Quote>>

FollowReplies == {None, Reply(fTwoTasks), Reply(fUnclosed)}

sEvalPrefix ==
  <<"E", "v", "a", "l", "u", "a", "t", "i", "o", "n", ":", " ",
    "r", "o", "u", "g", "h", "l", "y", " ">>

sPROGRESS == <<"P", "R", "O", "G", "R", "E", "S", "S", ":", " ">>

sInProgress ==
  <<",", " ", "S", "T", "A", "T", "U", "S", ":", " ",
    "I", "N", "_", "P", "R", "O", "G", "R", "E", "S", "S">>

sStatusAchieved ==
  <<",", " ", "S", "T", "A", "T", "U", "S", ":", " "
  >> \o sACHIEVED

sMixedAchieved == <<"A", "c", "h", "i", "e", "v", "e", "d">>

\* "Evaluation: roughly PROGRESS: 42%, STATUS: IN_PROGRESS"
eExample == sEvalPrefix \o sPROGRESS \o <<"4", "2", "%">> \o sInProgress

\* "PROGRESS: 100%, STATUS: ACHIEVED"
eAchieved == sPROGRESS \o s100pct \o sStatusAchieved

\* "60% done"
eSixty == <<"6", "0", "%", " ", "d", "o", "n", "e">>

\* the evaluator replies the loop is run against
EvalReplies == {None, Reply(<<>>), Reply(eExample), Reply(eAchieved),
                Reply(eSixty), Reply(sMixedAchieved)}

\* ------------------------------------------------------------------- state
VARIABLES
  max_iterations,   \* self.max_iterations
  iteration,        \* self.iteration
  completed_tasks,  \* self.completed_tasks
  pending_tasks,    \* self.pending_tasks
  storage_file,     \* agent_state.json: whether it exists, and its text
  pc,               \* where run() stands
  resumed,          \* run(): resumed
  progress,         \* run(): progress
  achieved,         \* run(): achieved
  evaluation,       \* run(): evaluation
  new_tasks,        \* run(): new_tasks
  fault,            \* the exception that left run(), "none" if none did
  passes,           \* loop passes begun by this run()
  entry_completed,  \* completed_tasks when this run() reached the loop
  entry_pending,    \* pending_tasks when this run() reached the loop
  pass_pending,     \* pending_tasks when the current pass began
  pass_completed,   \* completed_tasks when the current pass began
  had_task,         \* passes of this run() that found the queue non-empty
  followups,        \* calls of create_new_tasks in the current pass
  planning_calls,   \* calls of generate_tasks in this run()
  plan_response,    \* what call_llm returned to generate_tasks
  last_saved,       \* the LoopState of the last write that succeeded
  llm_calls,        \* calls of call_llm in this run()
  saves,            \* writes that succeeded in the current pass
  appended,         \* the follow-up batches this run() put in the queue
  total_passes,     \* passes completed, write included, by all processes
  saved_achieved    \* the last write that succeeded was an achieved pass's

vars == <<max_iterations, iteration, completed_tasks, pending_tasks,
          storage_file, pc, resumed, progress, achieved, evaluation,
          new_tasks, fault, passes, entry_completed, entry_pending,
          pass_pending, pass_completed, had_task, followups,
          planning_calls, plan_response, last_saved, llm_calls, saves,
          appended, total_passes, saved_achieved>>

loopState == <<iteration, completed_tasks, pending_tasks>>

locals == <<resumed, progress, achieved, evaluation, new_tasks>>

\* what is known of the disk's past; it outlives the process
disk == <<last_saved, total_passes, saved_achieved>>

history == <<passes, entry_completed, entry_pending, pass_pending,
             pass_completed, had_task, followups, planning_calls,
             plan_response, llm_calls, saves, appended, disk>>

NoFile == [exists |-> FALSE, text |-> <<>>]

LoopState(it, completed, pending) ==
  [iteration |-> it, completed_tasks |-> completed, pending_tasks |-> pending]

\* __init__ with max_iterations = n
Constructed(n) ==
  /\ max_iterations = n
  /\ iteration = 0
  /\ completed_tasks = <<>>
  /\ pending_tasks = <<>>
  /\ pc = "start"
  /\ resumed = FALSE
  /\ progress = 0
  /\ achieved = FALSE
  /\ evaluation = None
  /\ new_tasks = <<>>
  /\ fault = "none"
  /\ passes = 0
  /\ entry_completed = <<>>
  /\ entry_pending = <<>>
  /\ pass_pending = <<>>
  /\ pass_completed = <<>>
  /\ had_task = 0
  /\ followups = 0
  /\ planning_calls = 0
  /\ plan_response = None
  /\ llm_calls = 0
  /\ saves = 0
  /\ appended = <<>>

\* a first process on a disk that holds no agent_state.json
Init ==
  /\ storage_file = NoFile
  /\ last_saved = LoopState(0, <<>>, <<>>)
  /\ total_passes = 0
  /\ saved_achieved = FALSE
  /\ \E n \in 1..MaxN : Constructed(n)

\* the failure of the write is swallowed and control moves on
WriteTextSwallowed(text, next) ==
  \/ /\ storage_file' = [exists |-> TRUE, text |-> text]
     /\ pc' = next
     /\ fault' = fault
  \/ /\ storage_file' \in {storage_file, [exists |-> TRUE, text |-> <<>>]}
     /\ pc' = next
     /\ fault' = "OSError"

\* ----------------------------------------------------------------- actions
\* storage_file.write_text(text): the write succeeds and control moves to
\* next, or it raises OSError, before the file was opened for writing (file
\* untouched) or after (file left empty)
WriteText(text, next) ==
  \/ /\ storage_file' = [exists |-> TRUE, text |-> text]
     /\ pc' = next
     /\ fault' = fault
  \/ /\ storage_file' \in {storage_file, [exists |-> TRUE, text |-> <<>>]}
     /\ pc' = "raised"
     /\ fault' = "OSError"

\* save_state
save_state(next) ==
  /\ WriteText(Dumps(iteration, completed_tasks, pending_tasks), next)
  /\ IF pc' = next
     THEN /\ last_saved' =
               LoopState(iteration, completed_tasks, pending_tasks)
          /\ saves' = saves + 1
          /\ total_passes' = total_passes + 1
          /\ saved_achieved' = achieved
     ELSE UNCHANGED <<last_saved, saves, total_passes, saved_achieved>>

\* the record is found and read, but the counter stays as constructed
LoadStateFresh ==
  /\ pc = "start"
  /\ IF storage_file.exists
     THEN LET state == Loads(storage_file.text)
          IN IF state.ok
             THEN /\ iteration' = iteration
                  /\ completed_tasks' = state.completed_tasks
                  /\ pending_tasks' = state.pending_tasks
                  /\ resumed' = TRUE
                  /\ pc' = "plan"
                  /\ fault' = fault
             ELSE /\ pc' = "raised"
                  /\ fault' = "JSONDecodeError"
                  /\ UNCHANGED <<loopState, resumed>>
     ELSE /\ resumed' = FALSE
          /\ pc' = "plan"
          /\ UNCHANGED <<loopState, fault>>
  /\ UNCHANGED <<max_iterations, storage_file, progress, achieved,
                 evaluation, new_tasks, history>>

\* run(): resumed = self.load_state()
LoadState ==
  /\ pc = "start"
  /\ IF storage_file.exists
     THEN LET state == Loads(storage_file.text)
          IN IF state.ok
             THEN /\ iteration' = state.iteration
                  /\ completed_tasks' = state.completed_tasks
                  /\ pending_tasks' = state.pending_tasks
                  /\ resumed' = TRUE
                  /\ pc' = "plan"
                  /\ fault' = fault
             ELSE /\ pc' = "raised"
                  /\ fault' = "JSONDecodeError"
                  /\ UNCHANGED <<loopState, resumed>>
     ELSE /\ resumed' = FALSE
          /\ pc' = "plan"
          /\ UNCHANGED <<loopState, fault>>
  /\ UNCHANGED <<max_iterations, storage_file, progress, achieved,
                 evaluation, new_tasks, history>>

\* planning whenever the queue is empty, whether a record was loaded or not
InitialPlanningOnEmpty ==
  /\ pc = "plan"
  /\ pending_tasks = <<>>
  /\ \E response \in PlanReplies :
       /\ pending_tasks' = generate_tasks(response)
       /\ plan_response' = response
  /\ planning_calls' = planning_calls + 1
  /\ llm_calls' = llm_calls + 1
  /\ entry_completed' = completed_tasks
  /\ entry_pending' = pending_tasks'
  /\ pc' = "loop"
  /\ UNCHANGED <<max_iterations, iteration, completed_tasks, storage_file,
                 locals, fault, passes, pass_pending, pass_completed,
                 had_task, followups, saves, appended, disk>>

\* run(): "if not resumed and not self.pending_tasks", taken
InitialPlanning ==
  /\ pc = "plan"
  /\ ~resumed /\ pending_tasks = <<>>
  /\ \E response \in PlanReplies :
       /\ pending_tasks' = generate_tasks(response)
       /\ plan_response' = response
  /\ planning_calls' = planning_calls + 1
  /\ llm_calls' = llm_calls + 1
  /\ entry_completed' = completed_tasks
  /\ entry_pending' = pending_tasks'
  /\ pc' = "loop"
  /\ UNCHANGED <<max_iterations, iteration, completed_tasks, storage_file,
                 locals, fault, passes, pass_pending, pass_completed,
                 had_task, followups, saves, appended, disk>>

\* run(): "if not resumed and not self.pending_tasks", not taken
SkipPlanning ==
  /\ pc = "plan"
  /\ ~(~resumed /\ pending_tasks = <<>>)
  /\ entry_completed' = completed_tasks
  /\ entry_pending' = pending_tasks
  /\ pc' = "loop"
  /\ UNCHANGED <<max_iterations, loopState, storage_file, locals, fault,
                 passes, pass_pending, pass_completed, had_task, followups,
                 planning_calls, plan_response, llm_calls, saves, appended,
                 disk>>

\* the bound tested before every pass, with <= for <
LoopConditionInclusive(it, n) == it <= n

\* the bound tested before every pass, one short
LoopConditionShort(it, n) == it + 1 < n

\* run(): the condition of "while self.iteration < self.max_iterations"
LoopCondition(it, n) == it < n

\* run(): the while condition holds; the pass begins
LoopEnter ==
  /\ pc = "loop"
  /\ LoopCondition(iteration, max_iterations)
  /\ iteration' = iteration + 1
  /\ pc' = "execute"
  /\ passes' = passes + 1
  /\ pass_pending' = pending_tasks
  /\ pass_completed' = completed_tasks
  /\ followups' = 0
  /\ saves' = 0
  /\ progress' = 0
  /\ achieved' = FALSE
  /\ evaluation' = None
  /\ new_tasks' = <<>>
  /\ UNCHANGED <<max_iterations, completed_tasks, pending_tasks,
                 storage_file, resumed, fault, entry_completed,
                 entry_pending, had_task, planning_calls, plan_response,
                 llm_calls, appended, disk>>

\* run(): the while condition fails; run() returns
LoopExit ==
  /\ pc = "loop"
  /\ ~LoopCondition(iteration, max_iterations)
  /\ pc' = "done"
  /\ UNCHANGED <<max_iterations, loopState, storage_file, locals, fault,
                 history>>

\* a task is executed only while another one waits behind it
HasTaskBehind(pending) == Len(pending) > 1

\* run(): the condition of "if self.pending_tasks:"
HasTask(pending) == pending # <<>>

\* run(): pop the front task, execute it, append its record
ExecuteStep ==
  /\ pc = "execute"
  /\ IF HasTask(pending_tasks)
     THEN \E response \in ExecReplies :
            /\ pending_tasks' = Tail(pending_tasks)
            /\ completed_tasks' =
                 Append(completed_tasks,
                        Record(Head(pending_tasks), execute_task(response),
                               iteration))
     ELSE UNCHANGED <<pending_tasks, completed_tasks>>
  /\ had_task' = had_task + (IF pending_tasks # <<>> THEN 1 ELSE 0)
  /\ llm_calls' = llm_calls + (IF HasTask(pending_tasks) THEN 1 ELSE 0)
  /\ pc' = "evaluate"
  /\ UNCHANGED <<max_iterations, iteration, storage_file, locals, fault,
                 passes, entry_completed, entry_pending, pass_pending,
                 pass_completed, followups, planning_calls, plan_response,
                 saves, appended, disk>>

\* where run() stands after "evaluation[:200]": None is not subscriptable and
\* the expression raises TypeError
AfterEvaluation(ev) == IF ev.ok THEN "check" ELSE "raised"

\* run(): progress, achieved, evaluation = self.evaluate_progress() and the
\* two prints that follow
Evaluate(replies) ==
  /\ pc = "evaluate"
  /\ \E response \in replies :
       LET e == evaluate_progress(response)
       IN /\ progress' = e.progress
          /\ achieved' = e.achieved
          /\ evaluation' = e.evaluation
          /\ pc' = AfterEvaluation(e.evaluation)
          /\ fault' = IF AfterEvaluation(e.evaluation) = "raised"
                      THEN "TypeError" ELSE fault
  /\ llm_calls' = llm_calls + 1
  /\ UNCHANGED <<max_iterations, loopState, storage_file, resumed,
                 new_tasks, passes, entry_completed, entry_pending,
                 pass_pending, pass_completed, had_task, followups,
                 planning_calls, plan_response, saves, appended, disk>>

\* the achieved pass ends the run without writing the record
GoalAchievedUnsaved ==
  /\ pc = "check"
  /\ achieved
  /\ pc' = "done"
  /\ UNCHANGED <<max_iterations, loopState, storage_file, locals, fault,
                 history>>

\* the achieved pass writes the record and goes back to the loop condition
GoalAchievedContinues ==
  /\ pc = "check"
  /\ achieved
  /\ save_state("loop")
  /\ UNCHANGED <<max_iterations, loopState, locals, passes,
                 entry_completed, entry_pending, pass_pending,
                 pass_completed, had_task, followups, planning_calls,
                 plan_response, llm_calls, appended>>

\* run(): "if achieved:" save_state and break
GoalAchieved ==
  /\ pc = "check"
  /\ achieved
  /\ save_state("done")
  /\ UNCHANGED <<max_iterations, loopState, locals, passes,
                 entry_completed, entry_pending, pass_pending,
                 pass_completed, had_task, followups, planning_calls,
                 plan_response, llm_calls, appended>>

\* run(): the condition of "if len(self.pending_tasks) < 2:"
NeedsTasks(pending) == Len(pending) < 2

\* the batch put in front of the tasks already queued
ExtendFront(pending, batch) == batch \o pending

\* run(): self.pending_tasks.extend(new_tasks)
Extend(pending, batch) == pending \o batch

\* create_new_tasks reaches its call_llm only past "if not completed_tasks"
FollowupCalls(completed) == IF completed = <<>> THEN 0 ELSE 1

\* run(): create_new_tasks and extend
Replenish ==
  /\ pc = "check"
  /\ ~achieved
  /\ NeedsTasks(pending_tasks)
  /\ \E response \in FollowReplies :
       /\ new_tasks' = create_new_tasks(completed_tasks, response)
       /\ pending_tasks' =
            Extend(pending_tasks, create_new_tasks(completed_tasks, response))
       /\ appended' =
            appended \o create_new_tasks(completed_tasks, response)
  /\ followups' = followups + 1
  /\ llm_calls' = llm_calls + FollowupCalls(completed_tasks)
  /\ pc' = "save"
  /\ UNCHANGED <<max_iterations, iteration, completed_tasks, storage_file,
                 resumed, progress, achieved, evaluation, fault, passes,
                 entry_completed, entry_pending, pass_pending,
                 pass_completed, had_task, planning_calls, plan_response,
                 saves, disk>>

\* run(): the queue still holds two tasks or more
NoReplenish ==
  /\ pc = "check"
  /\ ~achieved
  /\ ~NeedsTasks(pending_tasks)
  /\ pc' = "save"
  /\ UNCHANGED <<max_iterations, loopState, storage_file, locals, fault,
                 history>>

\* run(): save_state at the end of the pass
SaveState ==
  /\ pc = "save"
  /\ save_state("loop")
  /\ UNCHANGED <<max_iterations, loopState, locals, passes,
                 entry_completed, entry_pending, pass_pending,
                 pass_completed, had_task, followups, planning_calls,
                 plan_response, llm_calls, appended>>

\* a new process: AutonomousAgent(goal, max_iterations = n) after the last
\* run() returned or raised or its process was killed; the file stays as
\* that run left it
Construct ==
  /\ pc \in {"done", "raised", "crashed"}
  /\ \E n \in 1..MaxN : max_iterations' = n
  /\ iteration' = 0
  /\ completed_tasks' = <<>>
  /\ pending_tasks' = <<>>
  /\ pc' = "start"
  /\ resumed' = FALSE
  /\ progress' = 0
  /\ achieved' = FALSE
  /\ evaluation' = None
  /\ new_tasks' = <<>>
  /\ fault' = "none"
  /\ passes' = 0
  /\ entry_completed' = <<>>
  /\ entry_pending' = <<>>
  /\ pass_pending' = <<>>
  /\ pass_completed' = <<>>
  /\ had_task' = 0
  /\ followups' = 0
  /\ planning_calls' = 0
  /\ plan_response' = None
  /\ llm_calls' = 0
  /\ saves' = 0
  /\ appended' = <<>>
  /\ UNCHANGED <<storage_file, disk>>

\* where run() is while the process is alive
Running == {"start", "plan", "loop", "execute", "evaluate", "check", "save"}

\* what the process held goes with it
MemoryLost ==
  /\ iteration' = 0
  /\ completed_tasks' = <<>>
  /\ pending_tasks' = <<>>
  /\ resumed' = FALSE
  /\ progress' = 0
  /\ achieved' = FALSE
  /\ evaluation' = None
  /\ new_tasks' = <<>>
  /\ fault' = "none"
  /\ passes' = 0
  /\ entry_completed' = <<>>
  /\ entry_pending' = <<>>
  /\ pass_pending' = <<>>
  /\ pass_completed' = <<>>
  /\ had_task' = 0
  /\ followups' = 0
  /\ planning_calls' = 0
  /\ plan_response' = None
  /\ llm_calls' = 0
  /\ saves' = 0
  /\ appended' = <<>>

\* the process is killed between two steps of run(): memory is lost, the
\* file stays as it is
Crash ==
  /\ pc \in Running
  /\ pc' = "crashed"
  /\ MemoryLost
  /\ UNCHANGED <<max_iterations, storage_file, disk>>

\* the lengths at which a write that is cut short is sampled
CutPoints(text) == {0, Len(text) \div 2, Len(text) - 1}

\* the process is killed inside storage_file.write_text: the file was
\* truncated on open and holds the part of the text written so far
CrashInWrite ==
  /\ \/ pc = "save"
     \/ pc = "check" /\ achieved
  /\ \E k \in CutPoints(Dumps(iteration, completed_tasks, pending_tasks)) :
       storage_file' =
         [exists |-> TRUE,
          text |-> SubSeq(Dumps(iteration, completed_tasks, pending_tasks),
                          1, k)]
  /\ pc' = "crashed"
  /\ MemoryLost
  /\ UNCHANGED <<max_iterations, disk>>

Next ==
  \/ LoadState
  \/ InitialPlanning
  \/ SkipPlanning
  \/ LoopEnter
  \/ LoopExit
  \/ ExecuteStep
  \/ Evaluate(EvalReplies)
  \/ GoalAchieved
  \/ Replenish
  \/ NoReplenish
  \/ SaveState
  \/ Crash
  \/ CrashInWrite
  \/ Construct

Spec == Init /\ [][Next]_vars

\* ------------------------------------- the evaluator on a space of replies
\* the pieces evaluator replies are put together from
Fragments ==
  {sPROGRESS, <<"4", "2">>, s100pct, <<"%">>, sInProgress, <<" ">>,
   sMixedAchieved, sACHIEVED}

RECURSIVE Concats(_)
\* the texts made of exactly k fragments
Concats(k) ==
  IF k = 0 THEN {<<>>}
  ELSE {f \o rest : f \in Fragments, rest \in Concats(k - 1)}

\* no reply, the replies the loop is run against, and every reply of at most
\* MaxFrags fragments
EvalInputs ==
  EvalReplies \cup {Reply(t) : t \in UNION {Concats(k) : k \in 0..MaxFrags}}

\* the first pass of a fresh run whose plan came back as "[]", about to
\* evaluate
InitEval ==
  /\ storage_file = NoFile
  /\ last_saved = LoopState(0, <<>>, <<>>)
  /\ total_passes = 0
  /\ saved_achieved = FALSE
  /\ llm_calls = 1
  /\ saves = 0
  /\ appended = <<>>
  /\ max_iterations = MaxN
  /\ iteration = 1
  /\ completed_tasks = <<>>
  /\ pending_tasks = <<>>
  /\ pc = "evaluate"
  /\ resumed = FALSE
  /\ progress = 0
  /\ achieved = FALSE
  /\ evaluation = None
  /\ new_tasks = <<>>
  /\ fault = "none"
  /\ passes = 1
  /\ entry_completed = <<>>
  /\ entry_pending = <<>>
  /\ pass_pending = <<>>
  /\ pass_completed = <<>>
  /\ had_task = 0
  /\ followups = 0
  /\ planning_calls = 1
  /\ plan_response = Reply(pNoTasks)

NextEval == Evaluate(EvalInputs)

SpecEval == InitEval /\ [][NextEval]_vars

\* ------------------------------------------------------------------ claims
Max(a, b) == IF a > b THEN a ELSE b

\* the iteration this run() entered the loop with
EntryIteration == iteration - passes

\* run() has returned or raised
Ended == pc \in {"done", "raised"}

\* C1, as stated: iteration never exceeds max_iterations, and a run() that
\* returns without the evaluator having reported achieved has made exactly
\* max_iterations passes.
BoundedIterationAsStated ==
  /\ iteration <= max_iterations
  /\ pc = "done" => (IF achieved THEN passes <= max_iterations
                     ELSE passes = max_iterations)

\* C1, amended: with k the iteration the run enters the loop with (0 on a
\* fresh run, the record's on a resumed one), iteration never exceeds
\* max(max_iterations, k), no run begins more than max(0, max_iterations - k)
\* passes, no pass follows one that reported achieved, and a run() that
\* returns without achieved has made exactly max(0, max_iterations - k)
\* passes.
BoundedIteration ==
  /\ iteration <= Max(max_iterations, EntryIteration)
  /\ passes <= Max(0, max_iterations - EntryIteration)
  /\ achieved => pc \in {"check", "done", "raised"}
  /\ pc = "done" /\ ~achieved
       => passes = Max(0, max_iterations - EntryIteration)

\* a resumed run returns at the cap after fewer than max_iterations passes
BoundedIterationWitness ==
  /\ pc = "done"
  /\ resumed
  /\ ~achieved
  /\ passes >= 1
  /\ passes < max_iterations
  /\ iteration = max_iterations

\* C2: when call_llm returns None to the evaluator, progress is 0, achieved
\* is false and the pass goes on to the replenishment check.
DegradedEvaluator ==
  [][(pc = "evaluate" /\ pc' # "evaluate" /\ ~evaluation'.ok)
       => (progress' = 0 /\ ~achieved' /\ pc' = "check")]_vars

\* C3: whatever the backend answers at the four calls, no exception caused
\* by a failed call or a malformed reply leaves run(), and a failed planning
\* call leaves the default plan in the queue.
FailureAbsorption ==
  /\ fault \in {"none", "OSError", "JSONDecodeError"}
  /\ (planning_calls = 1 /\ ~plan_response.ok /\ passes = 0)
       => pending_tasks = DefaultPlan

\* the reply is "PROGRESS: n%, STATUS: IN_PROGRESS" after an optional
\* "Evaluation: roughly ", n written in digits
PromptedFormat(text) ==
  \E pre \in {<<>>, sEvalPrefix} :
    LET lo == Len(pre) + Len(sPROGRESS)
        hi == Len(text) - Len(sInProgress) - 1
    IN /\ lo < hi
       /\ SubSeq(text, 1, lo) = pre \o sPROGRESS
       /\ \A i \in (lo + 1)..hi : text[i] \in DigitSet
       /\ SubSeq(text, hi + 1, Len(text)) = <<"%">> \o sInProgress

\* the n of a reply in the prompted format
PromptedNumber(text) ==
  LET pre == IF SubSeq(text, 1, Len(sEvalPrefix)) = sEvalPrefix
             THEN sEvalPrefix ELSE <<>>
  IN DigitsValue(SubSeq(text, Len(pre) + Len(sPROGRESS) + 1,
                        Len(text) - Len(sInProgress) - 1), 0)

\* C4: a reply in the prompted format that holds neither "100%" nor
\* "ACHIEVED" is evaluated to progress n and achieved false.
ProgressTokenExtraction ==
  (/\ pc = "check"
   /\ PromptedFormat(evaluation.text)
   /\ ~Contains(evaluation.text, s100pct))
    => (progress = PromptedNumber(evaluation.text) /\ ~achieved)

sLowerAchieved == <<"a", "c", "h", "i", "e", "v", "e", "d">>

\* text holds the word ACHIEVED, every letter in either case
HoldsAchievedAnyCase(text) ==
  \E i \in 0..(Len(text) - 8) :
    \A j \in 1..8 : text[i + j] \in {sACHIEVED[j], sLowerAchieved[j]}

\* C5: a reply holding "100%" or the word ACHIEVED in any letter case is
\* evaluated to achieved true and progress 100, whatever else it holds.
AchievedShortCircuit ==
  (/\ pc \in {"check", "raised"}
   /\ evaluation.ok
   /\ \/ Contains(evaluation.text, s100pct)
      \/ HoldsAchievedAnyCase(evaluation.text))
    => (achieved /\ progress = 100)

\* a reply with "42%" and a mixed-case "Achieved" was evaluated to achieved
AchievedShortCircuitWitness ==
  /\ pc = "check"
  /\ Contains(evaluation.text, <<"4", "2", "%">>)
  /\ Contains(evaluation.text, sMixedAchieved)
  /\ ~Contains(evaluation.text, sACHIEVED)
  /\ ~Contains(evaluation.text, s100pct)
  /\ achieved
  /\ progress = 100

\* a pass is under way, or was the last thing this run() did
InPass == passes >= 1 /\ pc \in {"execute", "evaluate", "check", "save",
                                 "loop", "done", "raised"}

IsPrefix(a, b) == Len(a) <= Len(b) /\ SubSeq(b, 1, Len(a)) = a

\* C6: a pass removes at most one task, from the front of the queue, and
\* adds at most one record, for that task, at the end of the log; the
\* records added by this run() are as many as its passes that found the
\* queue non-empty at pop time.
QueueConservation ==
  /\ pc \notin {"start", "plan"}
       => Len(completed_tasks) = Len(entry_completed) + had_task
  /\ had_task <= passes
  /\ InPass =>
       \/ /\ completed_tasks = pass_completed
          /\ IsPrefix(pass_pending, pending_tasks)
       \/ /\ pass_pending # <<>>
          /\ Len(completed_tasks) = Len(pass_completed) + 1
          /\ IsPrefix(pass_completed, completed_tasks)
          /\ completed_tasks[Len(completed_tasks)].task = Head(pass_pending)
          /\ IsPrefix(Tail(pass_pending), pending_tasks)
  /\ (InPass /\ pc # "execute" /\ pass_pending # <<>>)
       => Len(completed_tasks) = Len(pass_completed) + 1

\* a run() returned after passes with a task to pop and passes without one
QueueConservationWitness ==
  /\ pc = "done"
  /\ had_task >= 1
  /\ had_task < passes
  /\ Len(completed_tasks) = had_task

\* C7: loading what save_state writes gives back the iteration, the
\* completed log and the pending queue, in order, in every reachable
\* LoopState; an agent that has loaded the file holds the LoopState of the
\* last save.
RoundTrip ==
  /\ Loads(Dumps(iteration, completed_tasks, pending_tasks))
       = [ok |-> TRUE, iteration |-> iteration,
          completed_tasks |-> completed_tasks,
          pending_tasks |-> pending_tasks]
  /\ (pc = "plan" /\ resumed)
       => LoopState(iteration, completed_tasks, pending_tasks) = last_saved

\* a fresh agent has loaded a record of MaxN passes with two queued tasks
RoundTripWitness ==
  /\ pc = "plan"
  /\ resumed
  /\ iteration = MaxN
  /\ Len(completed_tasks) >= 2
  /\ Len(pending_tasks) >= 2
  /\ pending_tasks[1] # pending_tasks[2]

\* the queue of the current pass after its execution step
AfterExecution == IF pass_pending = <<>> THEN <<>> ELSE Tail(pass_pending)

\* the current pass is past its replenishment step, or has ended
PassSettled == passes >= 1 /\ pc \in {"save", "loop", "done", "raised"}

\* C8: a pass that is not achieved and whose queue holds fewer than 2 tasks
\* after the execution step calls create_new_tasks exactly once and appends
\* what it returns behind the tasks already queued; with 2 tasks or more
\* create_new_tasks is not called and the queue is left as it was.
ReplenishmentTrigger ==
  (PassSettled /\ ~achieved) =>
    IF Len(AfterExecution) < 2
    THEN followups = 1 /\ pending_tasks = AfterExecution \o new_tasks
    ELSE followups = 0 /\ pending_tasks = AfterExecution

\* C9: on a fresh run whose planning call failed, the queue on entry to the
\* first pass is the default plan, in order.
FallbackPlan ==
  (/\ ~resumed
   /\ planning_calls = 1
   /\ ~plan_response.ok)
    => /\ entry_pending = DefaultPlan
       /\ (pc = "loop" /\ passes = 0) => pending_tasks = DefaultPlan
       /\ passes = 1 => pass_pending = DefaultPlan

\* the first pass of such a run began with the three default tasks queued
FallbackPlanWitness ==
  /\ pc = "execute"
  /\ passes = 1
  /\ ~resumed
  /\ planning_calls = 1
  /\ ~plan_response.ok
  /\ pass_pending = <<"Research the goal", "Create a plan", "Execute plan">>

\* C10: a run() that no persistence failure stopped ends by returning,
\* after a pass that reported achieved or with iteration at max_iterations.
ExitBehaviour ==
  (Ended /\ fault \notin {"OSError", "JSONDecodeError"})
    => (pc = "done" /\ (achieved \/ iteration >= max_iterations))

\* C11: the step in which the write of the record fails leaves run() by the
\* exception, without ending a pass, beginning one or calling the backend,
\* and the only step after it is the construction of a new agent: no pass
\* and no backend call follows the failure in that run().
PersistenceFailureHalts ==
  [][/\ (fault' = "OSError" /\ fault # "OSError")
          => /\ pc \in {"check", "save"}
             /\ pc' = "raised"
             /\ passes' = passes
             /\ iteration' = iteration
             /\ llm_calls' = llm_calls
             /\ saves' = saves
     /\ (pc = "raised" /\ fault = "OSError") => Construct]_vars

\* the write failed in a pass that was not the last the cap allows
PersistenceFailureHaltsWitness ==
  /\ pc = "raised"
  /\ fault = "OSError"
  /\ passes >= 1
  /\ iteration < max_iterations
  /\ saves = 0

\* the current pass has completed: run() is back at the loop condition, or
\* has returned
PassCompleted == passes >= 1 /\ pc \in {"loop", "done"}

\* C12: a pass that has completed, by whichever branch, wrote the record
\* exactly once, and nothing changed the state after the write: the record
\* in the file, read back, has the iteration, the log and the queue the
\* agent holds in memory.
CheckpointPerPass ==
  PassCompleted
    => /\ saves = 1
       /\ storage_file.exists
       /\ Loads(storage_file.text).ok
       /\ Loads(storage_file.text).iteration = iteration
       /\ Loads(storage_file.text).completed_tasks = completed_tasks
       /\ Loads(storage_file.text).pending_tasks = pending_tasks

\* a pass that executed a task and replenished the queue has completed
CheckpointPerPassWitness ==
  /\ pc = "loop"
  /\ passes >= 1
  /\ followups = 1
  /\ new_tasks # <<>>
  /\ completed_tasks # <<>>
  /\ saves = 1

\* C13: in a pass whose evaluation reported achieved, create_new_tasks is
\* not called and the queue stays as the execution step left it; the pass
\* goes from the check to the write and the return (or to the exception of
\* a write that failed), and no pass of this run() follows it, whatever
\* iteration is.
AchievedStep ==
  [][(InPass /\ achieved)
       => /\ followups = 0
          /\ pending_tasks = AfterExecution
          /\ pc \in {"check", "done", "raised"}
          /\ pc = "done" => (saves = 1 /\ saved_achieved)
          /\ pc' \in {"done", "raised", "crashed", "start"}
          /\ passes' \in {passes, 0}
          /\ pc' \in {"done", "raised"} => pending_tasks' = pending_tasks]_vars

\* the run returned on achieved below the cap, with tasks still queued
AchievedStepWitness ==
  /\ pc = "done"
  /\ achieved
  /\ iteration < max_iterations
  /\ pending_tasks # <<>>
  /\ had_task >= 1
  /\ saves = 1

\* the step stays within one run() of one process
SameRun == pc' \notin {"start", "crashed"}

\* C14: within a run(), the load step included, iteration never decreases;
\* it changes only at the load and at the beginning of a pass, where it
\* grows by exactly 1; and each write that succeeds records an iteration
\* equal to the number of passes completed, write included, by the first
\* run on this file and all the runs resumed from it, so that a readable
\* record always carries that number.
IterationCounter ==
  [][/\ SameRun => iteration' >= iteration
     /\ passes' = passes + 1 => iteration' = iteration + 1
     /\ (SameRun /\ pc # "start" /\ iteration' # iteration)
          => passes' = passes + 1
     /\ saves' = saves + 1
          => /\ storage_file'.exists
             /\ Loads(storage_file'.text).ok
             /\ Loads(storage_file'.text).iteration = iteration'
             /\ Loads(storage_file'.text).iteration = total_passes'
     /\ (storage_file.exists /\ Loads(storage_file.text).ok)
          => Loads(storage_file.text).iteration = total_passes]_vars

\* a resumed run has written a record that counts an earlier run's passes
IterationCounterWitness ==
  /\ pc = "loop"
  /\ resumed
  /\ saves = 1
  /\ passes >= 1
  /\ total_passes > passes
  /\ iteration = total_passes

\* run() is past its load step
Loaded == pc \notin {"start", "crashed"} /\ fault # "JSONDecodeError"

\* C15: a run() calls generate_tasks at most once, and only if it loaded no
\* record; a run that loaded a record holds, after the load, the record's
\* iteration, log and queue, and enters the loop with that queue, empty or
\* not, without having planned; a run that found no record holds, after the
\* load, the fields as constructed.
StartupPlanning ==
  /\ planning_calls <= 1
  /\ planning_calls = 1 => ~resumed
  /\ (Loaded /\ resumed) => planning_calls = 0
  /\ (pc = "plan" /\ resumed)
       => /\ storage_file.exists
          /\ iteration = Loads(storage_file.text).iteration
          /\ completed_tasks = Loads(storage_file.text).completed_tasks
          /\ pending_tasks = Loads(storage_file.text).pending_tasks
  /\ (pc = "loop" /\ passes = 0 /\ resumed)
       => /\ pending_tasks = Loads(storage_file.text).pending_tasks
          /\ llm_calls = 0
  /\ (pc = "plan" /\ ~resumed)
       => /\ ~storage_file.exists
          /\ iteration = 0
          /\ completed_tasks = <<>>
          /\ pending_tasks = <<>>

\* a run that adopted an empty queue began a pass without having planned
StartupPlanningWitness ==
  /\ pc = "execute"
  /\ resumed
  /\ passes = 1
  /\ pass_pending = <<>>
  /\ entry_pending = <<>>
  /\ planning_calls = 0

\* C16: a step in which the process is killed leaves the file as it was
\* before the step or holding the complete record of the state being
\* written, and the file it leaves, if there is one, can be loaded.
AtomicCheckpoint ==
  [][pc' = "crashed"
       => /\ \/ storage_file' = storage_file
             \/ storage_file' =
                  [exists |-> TRUE,
                   text |-> Dumps(iteration, completed_tasks, pending_tasks)]
          /\ storage_file'.exists => Loads(storage_file'.text).ok]_vars

RECURSIVE TaskFields(_)
\* the task fields of a sequence of records of the log
TaskFields(recs) ==
  IF recs = <<>> THEN <<>>
  ELSE <<Head(recs).task>> \o TaskFields(Tail(recs))

\* the records this run() added to the log
AddedRecords ==
  SubSeq(completed_tasks, Len(entry_completed) + 1, Len(completed_tasks))

\* C17: from the entry to the loop on, the tasks of the records this run()
\* added to the log, followed by the queue, are the queue the loop was
\* entered with followed by the follow-up batches appended since, in order.
TaskConservation ==
  pc \notin {"start", "plan", "crashed"}
    => /\ IsPrefix(entry_completed, completed_tasks)
       /\ TaskFields(AddedRecords) \o pending_tasks
            = entry_pending \o appended

\* tasks were executed, a batch was appended behind a task still queued,
\* and tasks remain
TaskConservationWitness ==
  /\ pc = "loop"
  /\ had_task >= 2
  /\ appended # <<>>
  /\ pending_tasks # <<>>
  /\ pending_tasks # appended
  /\ Len(pending_tasks) > Len(new_tasks)
  /\ new_tasks # <<>>

\* the current pass began with the queue and the log both empty
Starved ==
  /\ passes >= 1
  /\ pc \in {"execute", "evaluate", "check", "save", "loop", "done", "raised"}
  /\ pass_pending = <<>>
  /\ pass_completed = <<>>

\* the evaluations this run() has asked for
Evaluations == passes - (IF pc \in {"execute", "evaluate"} THEN 1 ELSE 0)

\* C18: in a pass that began with the queue and the log both empty, the
\* follow-up planning, if reached, returns the empty batch without a backend
\* call and the queue and the log stay empty, so the next pass begins the
\* same way; the run has executed no task, its backend calls are those of
\* the initial planning and one evaluation per pass, and if it returns, the
\* last pass reported achieved or iteration is at max_iterations.
EmptyStartStarvation ==
  [][Starved
       => /\ pending_tasks = <<>>
          /\ completed_tasks = <<>>
          /\ new_tasks = <<>>
          /\ appended = <<>>
          /\ had_task = 0
          /\ llm_calls = planning_calls + Evaluations
          /\ pc = "done" => (achieved \/ iteration >= max_iterations)
          /\ passes' = passes + 1
               => (pass_pending' = <<>> /\ pass_completed' = <<>>)
          /\ followups' = followups + 1
               => (new_tasks' = <<>> /\ llm_calls' = llm_calls)]_vars

\* the second pass of a run with nothing to do has replenished with nothing
EmptyStartStarvationWitness ==
  /\ pc = "save"
  /\ passes = 2
  /\ pass_pending = <<>>
  /\ pass_completed = <<>>
  /\ followups = 1
  /\ planning_calls = 1
  /\ llm_calls = 3

\* this run() loaded a record that an achieved pass wrote, and has written
\* none itself
FromAchievedRecord == resumed /\ saved_achieved /\ saves = 0 /\ had_task = 0

\* C19: a run() that loaded the record of an achieved pass, with iteration
\* k below max_iterations, begins pass k + 1 at the loop condition and, if
\* the queue is not empty, executes its front task in that pass; a run()
\* that loaded a record with iteration at or above max_iterations begins no
\* pass, calls no backend and does not write the file before it returns.
AchievementNotRemembered ==
  [][/\ (FromAchievedRecord /\ pc = "loop" /\ passes = 0
           /\ iteration < max_iterations /\ pc' # "crashed")
          => (pc' = "execute" /\ passes' = 1 /\ iteration' = iteration + 1)
     /\ (FromAchievedRecord /\ pc = "execute" /\ passes = 1
           /\ pending_tasks # <<>> /\ pc' # "crashed")
          => /\ had_task' = 1
             /\ pending_tasks' = Tail(pending_tasks)
             /\ Len(completed_tasks') = Len(completed_tasks) + 1
             /\ completed_tasks'[Len(completed_tasks')].task
                  = Head(pending_tasks)
             /\ llm_calls' = llm_calls + 1
     /\ (resumed /\ pc \in {"plan", "loop", "done"} /\ passes = 0
           /\ iteration >= max_iterations)
          => /\ llm_calls = 0
             /\ storage_file' = storage_file
             /\ pc = "plan" => pc' \in {"loop", "crashed"}
             /\ pc = "loop" => pc' \in {"done", "crashed"}
             /\ pc = "done" => pc' = "start"]_vars

\* a run resumed from an achieved pass's record has executed the next task
AchievementNotRememberedWitness ==
  /\ pc = "evaluate"
  /\ resumed
  /\ saved_achieved
  /\ saves = 0
  /\ passes = 1
  /\ had_task = 1
  /\ llm_calls = 1

====
